---- MODULE Spec2Model ----
(***************************************************************************)
(* Model of src/server.js: the in-memory chat-session store behind         *)
(* POST /api/chat and POST /api/chat/end (specification Spec), and         *)
(* GET /api/jira/issue (specification SpecJira).                           *)
(*                                                                         *)
(* A handler runs synchronously up to its first await; every such          *)
(* synchronous segment is one action.  The await of chat.sendMessage       *)
(* splits POST /api/chat in two actions (ChatReceive, ChatResume), between *)
(* which the segments of other requests and the clock may run.             *)
(***************************************************************************)
EXTENDS Integers, Sequences, FiniteSets, Bags, TLC

\* ------------------------------------------------------------- bounds
\* conversation handles ever created by ai.chats.create
MaxChats == 2
\* chat requests suspended at `await chat.sendMessage` at the same time
MaxInFlight == 2
\* advances of the clock
MaxTicks == 2
\* length of the key parameter of GET /api/jira/issue
MaxKeyLen == 5

\* ------------------------------------------------------------- constants
SESSION_TTL_MS == 60 * 60 * 1000

\* one advance of Date.now(): the time-to-live, so that ages of exactly one
\* TTL (kept) and of more than one TTL (swept) both occur
TickMs == SESSION_TTL_MS

\* ------------------------------------------------------------- JS values
\* A JSON value of a request body: its typeof and its content.
Undefined == [t |-> "undefined", v |-> ""]
Str(s) == [t |-> "string", v |-> s]
Num(s) == [t |-> "number", v |-> s]

\* JS truthiness of the values above
Truthy(x) ==
  CASE x.t = "undefined" -> FALSE
    [] x.t = "string" -> x.v # ""
    [] x.t = "number" -> x.v # "0"

\* the strings crypto.randomUUID() returns, in the order it returns them
UuidNames == <<"uuid-1", "uuid-2", "uuid-3", "uuid-4", "uuid-5", "uuid-6">>

MessageValues == {Undefined, Str(""), Num("42"), Str("hi")}

SystemInstructionValues == {Undefined, Num("1"), Str("sys")}

\* ------------------------------------------------------------- state
VARIABLES
  geminiKey,     \* process.env.GEMINI_API_KEY is set
  now,           \* Date.now()
  chatSessions,  \* the Map: sessionId -> [chat, lastUsed]
  chats,         \* the number of handles ai.chats.create has made
  issued,        \* the ids crypto.randomUUID() has returned, in order
  inflight,      \* the chat requests suspended at await sendMessage (a bag)
  last,          \* the handler segment that ran last, and its answer
  jiraDomain,    \* JIRA_DOMAIN is not empty
  jiraEmail,     \* JIRA_EMAIL is not empty
  jiraApiToken,  \* JIRA_API_TOKEN is not empty
  jiraParam,     \* the key parameter of the tracker request to come
  jiraPending,   \* the tracker request suspended at await fetch
  jiraLast       \* the tracker handler segment that ran last, and its answer

chatVars == <<geminiKey, now, chatSessions, chats, issued, inflight, last>>

jiraVars == <<jiraDomain, jiraEmail, jiraApiToken, jiraParam, jiraPending, jiraLast>>

vars == <<chatVars, jiraVars>>

\* the ids issued so far
IssuedIds == {issued[i] : i \in 1..Len(issued)}

\* the values a client puts in the sessionId field: nothing, a string that
\* is no id of the server, or an id the server has answered with (an id
\* crypto.randomUUID() has yet to return cannot be guessed)
SessionIdValues == {Undefined, Str("bogus")} \cup {Str(u) : u \in IssuedIds}

\* the same, and a value that is no string, for POST /api/chat/end
EndSessionIdValues == SessionIdValues \cup {Num("7")}

\* req.body of POST /api/chat: nothing parsed (undefined), or an object
NoBody == [parsed |-> FALSE, message |-> Undefined, sessionId |-> Undefined,
           systemInstruction |-> Undefined]

Body(message, sessionId, systemInstruction) ==
  [parsed |-> TRUE, message |-> message, sessionId |-> sessionId,
   systemInstruction |-> systemInstruction]

\* the bodies of the requests the handler answers at lines 101-110; it has
\* used no field but message by then, so the other two are left out
EarlyBodies == {NoBody} \cup {Body(m, Undefined, Undefined) : m \in MessageValues}

\* the bodies of the requests that pass line 108
ValidBodies ==
  {Body(Str("hi"), sid, si) : sid \in SessionIdValues, si \in SystemInstructionValues}

\* the bodies of the requests whose handle creation throws; the handler
\* has used message and sessionId by then
ThrowBodies == {Body(Str("hi"), sid, Undefined) : sid \in SessionIdValues}

\* req.body of POST /api/chat/end
EndBodies ==
  {[parsed |-> FALSE, sessionId |-> Undefined]} \cup
  [parsed : {TRUE}, sessionId : EndSessionIdValues]

\* the record of a segment: which handler, on what request, what it did
\* (swept, looked up, called the engine) and what it answered
NoStep == [op |-> "init", parsed |-> FALSE, message |-> Undefined,
           sessionId |-> Undefined, systemInstruction |-> Undefined,
           swept |-> FALSE, branch |-> "none", found |-> "none", chat |-> 0,
           config |-> "", threw |-> -1, answered |-> FALSE,
           status |-> 0, ok |-> FALSE, reply |-> "",
           outSessionId |-> Undefined, error |-> "",
           calls |-> 0, newChats |-> 0, inserted |-> {}, removed |-> {},
           removedLive |-> {}, touched |-> {}, rehandled |-> {}]

\* what a segment did to the state, read off the state before and after
\* it: sendMessage calls started (+1) or returned (-1), handles created,
\* keys inserted and removed, keys removed at an age of at most the
\* time-to-live, entries whose lastUsed or chat changed
Effects(desc) ==
  LET old == DOMAIN chatSessions
      new == DOMAIN chatSessions'
  IN [desc EXCEPT
        !.calls = BagCardinality(inflight') - BagCardinality(inflight),
        !.newChats = chats' - chats,
        !.inserted = new \ old,
        !.removed = old \ new,
        !.removedLive = {id \in old \ new :
                           now - chatSessions[id].lastUsed <= SESSION_TTL_MS},
        !.touched = {id \in old \cap new :
                       chatSessions'[id].lastUsed # chatSessions[id].lastUsed},
        !.rehandled = {id \in old \cap new :
                         chatSessions'[id].chat # chatSessions[id].chat}]

\* a segment of POST /api/chat that answers before it uses sessionId and
\* systemInstruction (lines 101-110)
Rejected(body, status, error) ==
  [NoStep EXCEPT !.op = "chat", !.parsed = body.parsed, !.message = body.message,
     !.answered = TRUE, !.status = status, !.error = error]

\* the same, answered by the catch of lines 139-144
Caught(body, threw, status, error) ==
  [Rejected(body, status, error) EXCEPT !.threw = threw]

\* a segment of POST /api/chat that got to the lookup (lines 112-132)
Accepted(body, branch, found, chat, config) ==
  [NoStep EXCEPT !.op = "chat", !.parsed = TRUE, !.message = body.message,
     !.sessionId = body.sessionId, !.systemInstruction = body.systemInstruction,
     !.swept = TRUE, !.branch = branch, !.found = found, !.chat = chat,
     !.config = config]

\* the record of a segment of a tracker handler
NoJiraStep == [op |-> "init", present |-> FALSE, key |-> <<>>,
               fetched |-> FALSE, answered |-> FALSE, status |-> 0]

NoRequest == [op |-> "none", key |-> <<>>]

NoParam == [present |-> FALSE, key |-> <<>>]

\* the store and the engine after construction (lines 86-90)
InitChat ==
  /\ now = 0
  /\ chatSessions = <<>>
  /\ chats = 0
  /\ issued = <<>>
  /\ inflight = EmptyBag
  /\ last = NoStep

InitJira ==
  /\ jiraPending = NoRequest
  /\ jiraLast = NoJiraStep

\* the chat endpoints, with or without the key, the tracker unconfigured
Init ==
  /\ geminiKey \in BOOLEAN
  /\ InitChat
  /\ jiraDomain = FALSE /\ jiraEmail = FALSE /\ jiraApiToken = FALSE
  /\ jiraParam = NoParam
  /\ InitJira

\* ------------------------------------------------------------- the store
\* Map.delete(id)
MapDelete(m, id) == [k \in DOMAIN m \ {id} |-> m[k]]

\* Map.set(id, entry)
MapSet(m, id, entry) == [k \in DOMAIN m \cup {id} |-> IF k = id THEN entry ELSE m[k]]

\* Map.get(x) is defined: x is a string and a key of the map
MapHas(m, x) == x.t = "string" /\ x.v \in DOMAIN m

\* line 95 with the operands of the subtraction swapped
ExpiredSwapped(data, t) == data.lastUsed - t > SESSION_TTL_MS

\* line 95 with >= for >
ExpiredAtTtl(data, t) == t - data.lastUsed >= SESSION_TTL_MS

\* the test of line 95
Expired(data, t) == t - data.lastUsed > SESSION_TTL_MS

\* pruneExpiredSessions with Date.now() = t
pruneExpiredSessions(m, t) ==
  [k \in {id \in DOMAIN m : ~Expired(m[id], t)} |-> m[k]]

\* crypto.randomUUID(): a string it has not returned before
randomUUID == UuidNames[Len(issued) + 1]

\* ai.chats.create handing out the conversation object it made last
chatsCreateCached == IF chats = 0 THEN 1 ELSE chats

\* ai.chats.create: a new conversation object
chatsCreate == chats + 1

\* the config of lines 125-127 ("": no systemInstruction in it)
ConfigOf(systemInstruction) ==
  IF Truthy(systemInstruction) /\ systemInstruction.t = "string"
  THEN systemInstruction.v ELSE ""

\* ------------------------------------------------------------- POST /api/chat
\* what sendMessage resolves to: response.text, or no text
EngineReplies == {"hello", ""}

\* lines 123, 133: response?.text ?? "No response."
ReplyOf(text) == IF text = "" THEN "No response." ELSE text

\* what sendMessage rejects with: err.status (0: the error has none)
EngineErrors == {0, 429}

\* line 141 without the error's own status
StatusOfAlways500(errStatus) == 500

\* line 141: err?.status ?? 500
StatusOf(errStatus) == IF errStatus = 0 THEN 500 ELSE errStatus

\* what the supplied sessionId names when the request arrives
FoundOf(x) ==
  IF ~(Truthy(x) /\ MapHas(chatSessions, x)) THEN "absent"
  ELSE IF Expired(chatSessions[x.v], now) THEN "expired" ELSE "live"

\* lines 101-105: the key is not configured
ChatNoKey(body) ==
  /\ ~geminiKey
  /\ UNCHANGED <<geminiKey, now, chatSessions, chats, issued, inflight, jiraVars>>
  /\ last' = Effects(Rejected(body, 500, "Missing GEMINI_API_KEY"))

\* line 107 on an undefined req.body: the destructuring throws a TypeError,
\* which the catch of lines 139-144 answers (no status: 500)
ChatNoBody(body) ==
  /\ geminiKey
  /\ ~body.parsed
  /\ UNCHANGED <<geminiKey, now, chatSessions, chats, issued, inflight, jiraVars>>
  /\ last' = Effects(Caught(body, 0, StatusOf(0), "TypeError"))

\* the test of line 108
InvalidMessage(message) == ~Truthy(message) \/ message.t # "string"

\* lines 108-110
ChatBadMessage(body) ==
  /\ geminiKey
  /\ body.parsed
  /\ InvalidMessage(body.message)
  /\ UNCHANGED <<geminiKey, now, chatSessions, chats, issued, inflight, jiraVars>>
  /\ last' = Effects(Rejected(body, 400, "Missing or invalid 'message'"))

\* line 112 left out
UnsweptStore == chatSessions

\* line 112: the store the lookup of line 118 reads
SweptStore == pruneExpiredSessions(chatSessions, now)

\* lines 118-119 with a systemInstruction starting a conversation of its own
ExistingUnlessInstructed(store, body) ==
  /\ Truthy(body.sessionId) /\ MapHas(store, body.sessionId)
  /\ ~Truthy(body.systemInstruction)

\* lines 118-119: the request continues a session of the store
Existing(store, body) == Truthy(body.sessionId) /\ MapHas(store, body.sessionId)

\* a request at its await: the locals the rest of the handler reads, and
\* what its sessionId named when it arrived
Awaiting(body, branch, chat) ==
  [sessionId |-> body.sessionId, branch |-> branch, chat |-> chat,
   found |-> FoundOf(body.sessionId)]

\* line 121 moved behind the await of line 122: nothing is written before it
TouchedOnSuccess(store, id) == store

\* line 121: existing.lastUsed = Date.now()
Touched(store, id) == [store EXCEPT ![id].lastUsed = now]

\* lines 112-122: sweep, lookup, and on a live session the touch and the
\* call of sendMessage on its handle, up to the await
ChatReuse(body) ==
  /\ geminiKey
  /\ body.parsed
  /\ ~InvalidMessage(body.message)
  /\ BagCardinality(inflight) < MaxInFlight
  /\ LET store == SweptStore
         id == body.sessionId.v
     IN /\ Existing(store, body)
        /\ chatSessions' = Touched(store, id)
        /\ inflight' = inflight (+) SetToBag({Awaiting(body, "reuse", store[id].chat)})
        /\ UNCHANGED <<geminiKey, now, chats, issued, jiraVars>>
        /\ last' = Effects(Accepted(body, "reuse", FoundOf(body.sessionId),
                                    store[id].chat, ""))

\* lines 134-135 moved before the await of line 132
CreatedStoreEager(store, chat) ==
  MapSet(store, randomUUID, [chat |-> chat, lastUsed |-> now])

\* lines 124-132: the store when a creation reaches its await; the new
\* handle is in no entry yet
CreatedStore(store, chat) == store

\* lines 112-132: sweep, lookup, and with no session the creation of a
\* handle and the call of sendMessage on it, up to the await
ChatCreate(body) ==
  /\ geminiKey
  /\ body.parsed
  /\ ~InvalidMessage(body.message)
  /\ BagCardinality(inflight) < MaxInFlight
  /\ chats < MaxChats
  /\ LET store == SweptStore
     IN /\ ~Existing(store, body)
        /\ chatSessions' = CreatedStore(store, chatsCreate)
        /\ chats' = chats + 1
        /\ inflight' = inflight (+) SetToBag({Awaiting(body, "create", chatsCreate)})
        /\ UNCHANGED <<geminiKey, now, issued, jiraVars>>
        /\ last' = Effects(Accepted(body, "create", FoundOf(body.sessionId),
                                    chatsCreate, ConfigOf(body.systemInstruction)))

\* lines 112-128 and 139-144: sweep, lookup, and with no session a handle
\* creation (new GoogleGenAI, ai.chats.create) that throws (a plain Error,
\* which has no status)
ChatCreateThrows(body) ==
  /\ geminiKey
  /\ body.parsed
  /\ ~InvalidMessage(body.message)
  /\ LET store == SweptStore
     IN /\ ~Existing(store, body)
        /\ chatSessions' = store
        /\ UNCHANGED <<geminiKey, now, chats, issued, inflight, jiraVars>>
        /\ last' = Effects([Caught(body, 0, StatusOf(0), "Gemini request failed.")
                              EXCEPT !.swept = TRUE, !.branch = "create",
                                     !.found = FoundOf(body.sessionId)])

\* lines 99-132: the handler up to its answer or to its await
ChatReceive ==
  \/ \E body \in EarlyBodies :
       \/ ChatNoKey(body)
       \/ ChatNoBody(body)
       \/ ChatBadMessage(body)
  \/ \E body \in ValidBodies :
       \/ ChatNoKey(body)
       \/ ChatReuse(body)
       \/ ChatCreate(body)
  \/ \E body \in ThrowBodies : ChatCreateThrows(body)

\* the segment after the await of request r (lines 123, 133-144)
Resumed(r) ==
  [NoStep EXCEPT !.op = "resume", !.parsed = TRUE, !.message = Str("hi"),
     !.sessionId = r.sessionId, !.branch = r.branch,
     !.found = r.found, !.chat = r.chat, !.answered = TRUE]

\* the await of lines 122, 132 never left: the handler runs on from it
\* every time it is scheduled
SettledNever(r) == inflight

\* lines 122, 132: the promise of sendMessage settles and the handler of
\* request r runs on from its await, once
Settled(r) == inflight (-) SetToBag({r})

\* line 116 with the new id of line 134 on the reuse branch too
ReuseSessionIdFresh(r) == Str(randomUUID)

\* line 116: the id a reuse answers with is the one supplied
ReuseSessionId(r) == r.sessionId

\* lines 123, 138: the send on a live session's handle resolved
ResumeReuse(r, text) ==
  /\ r.branch = "reuse"
  /\ inflight' = Settled(r)
  /\ UNCHANGED <<geminiKey, now, chatSessions, chats, issued, jiraVars>>
  /\ last' = Effects([Resumed(r) EXCEPT !.status = 200, !.reply = ReplyOf(text),
                        !.outSessionId = ReuseSessionId(r)])

\* line 134 keeping the outSessionId of line 116 when the client sent one
NewSessionIdSupplied(r) ==
  IF Truthy(r.sessionId) /\ r.sessionId.t = "string" THEN r.sessionId.v ELSE randomUUID

\* line 134 run only when the request named no session
NewSessionIdUnlessNamed(r) ==
  IF Truthy(r.sessionId) THEN r.sessionId.v ELSE randomUUID

\* line 134 skipped when the session named had expired: the session made
\* in its place takes its id over
NewSessionIdOfExpired(r) ==
  IF r.found = "expired" THEN r.sessionId.v ELSE randomUUID

\* line 134: the id of the session a creation makes
NewSessionId(r) == randomUUID

\* lines 133-138: the first send on a new handle resolved
ResumeCreate(r, text) ==
  /\ r.branch = "create"
  /\ LET outSessionId == NewSessionId(r)
     IN /\ issued' = Append(issued, outSessionId)
        /\ chatSessions' = MapSet(chatSessions, outSessionId,
             [chat |-> r.chat, lastUsed |-> now])
        /\ inflight' = Settled(r)
        /\ UNCHANGED <<geminiKey, now, chats, jiraVars>>
        /\ last' = Effects([Resumed(r) EXCEPT !.status = 200, !.reply = ReplyOf(text),
                              !.outSessionId = Str(outSessionId)])

\* lines 139-144: sendMessage rejected
ResumeError(r, errStatus) ==
  /\ inflight' = Settled(r)
  /\ UNCHANGED <<geminiKey, now, chatSessions, chats, issued, jiraVars>>
  /\ last' = Effects([Resumed(r) EXCEPT !.threw = errStatus,
                        !.status = StatusOf(errStatus),
                        !.error = "Gemini request failed."])

ChatResume(r) ==
  \/ \E text \in EngineReplies : ResumeReuse(r, text)
  \/ \E text \in EngineReplies : ResumeCreate(r, text)
  \/ \E e \in EngineErrors : ResumeError(r, e)

\* ------------------------------------------------------------- POST /api/chat/end
\* line 150 with the typeof test inverted
EndStoreNotString(m, body) ==
  IF Truthy(body.sessionId) /\ body.sessionId.t # "string"
  THEN MapDelete(m, body.sessionId.v) ELSE m

\* line 151 deleting the oldest entry of the Map, whatever id is named
EndStoreOldest(m, body) ==
  IF Truthy(body.sessionId) /\ body.sessionId.t = "string" /\ DOMAIN m # {}
  THEN MapDelete(m, CHOOSE id \in DOMAIN m :
                      \A k \in DOMAIN m : m[id].chat <= m[k].chat)
  ELSE m

\* lines 149-152: the store after the handler
EndStore(m, body) ==
  IF Truthy(body.sessionId) /\ body.sessionId.t = "string"
  THEN MapDelete(m, body.sessionId.v) ELSE m

\* line 153: the answer, whatever the body
EndAnswer(body) == [status |-> 200, ok |-> TRUE]

ChatEnd(body) ==
  /\ chatSessions' = EndStore(chatSessions, body)
  /\ UNCHANGED <<geminiKey, now, chats, issued, inflight, jiraVars>>
  /\ last' = Effects([NoStep EXCEPT !.op = "end", !.parsed = body.parsed,
                        !.sessionId = body.sessionId,
                        !.found = FoundOf(body.sessionId),
                        !.answered = TRUE, !.status = EndAnswer(body).status,
                        !.ok = EndAnswer(body).ok])

\* ------------------------------------------------------------- the clock
Tick ==
  /\ now < MaxTicks * TickMs
  /\ now' = now + TickMs
  /\ last' = [NoStep EXCEPT !.op = "tick"]
  /\ UNCHANGED <<geminiKey, chatSessions, chats, issued, inflight, jiraVars>>

\* ------------------------------------------------------------- GET /api/jira/issue
\* the characters of a key parameter: a lower-case letter, an upper-case
\* letter, a digit, the dash and a blank
KeyChars == {"a", "B", "1", "-", " "}

UpperLetters == {"A", "B", "C", "D", "E", "F", "G", "H", "I", "J", "K", "L", "M",
                 "N", "O", "P", "Q", "R", "S", "T", "U", "V", "W", "X", "Y", "Z"}

Digits == {"0", "1", "2", "3", "4", "5", "6", "7", "8", "9"}

RECURSIVE KeysOfLen(_)
KeysOfLen(n) ==
  IF n = 0 THEN {<<>>}
  ELSE {Append(k, c) : k \in KeysOfLen(n - 1), c \in KeyChars}

\* req.query.key: absent, or a string of at most MaxKeyLen characters
KeyParams ==
  {NoParam} \cup
  {[present |-> TRUE, key |-> k] : k \in UNION {KeysOfLen(n) : n \in 0..MaxKeyLen}}

\* String.prototype.trim
RECURSIVE TrimStart(_)
TrimStart(k) ==
  IF k # <<>> /\ Head(k) = " " THEN TrimStart(Tail(k)) ELSE k

RECURSIVE TrimEnd(_)
TrimEnd(k) ==
  IF k # <<>> /\ k[Len(k)] = " " THEN TrimEnd(SubSeq(k, 1, Len(k) - 1)) ELSE k

Trim(k) == TrimEnd(TrimStart(k))

\* String.prototype.toUpperCase
UpperOf(c) == IF c = "a" THEN "A" ELSE c

ToUpperCase(k) == [i \in 1..Len(k) |-> UpperOf(k[i])]

\* line 60: (req.query.key || "").toString().trim().toUpperCase()
KeyOf(param) == ToUpperCase(Trim(IF param.present THEN param.key ELSE <<>>))

\* line 62: /^[A-Z][A-Z0-9]+-\d+$/.test(key)
KeyMatches(k) ==
  \E dash \in 3..(Len(k) - 1) :
    /\ k[1] \in UpperLetters
    /\ \A i \in 2..(dash - 1) : k[i] \in UpperLetters \cup Digits
    /\ k[dash] = "-"
    /\ \A i \in (dash + 1)..Len(k) : k[i] \in Digits

\* line 63: !JIRA_DOMAIN || !jiraAuthHeader, with the header of lines 22-25
JiraConfigured == jiraDomain /\ jiraEmail /\ jiraApiToken

\* lines 61-65 with the configuration tested before the key
IssueRejectionConfigFirst(key) ==
  IF ~JiraConfigured THEN 503
  ELSE IF key = <<>> THEN 400
  ELSE IF ~KeyMatches(key) THEN 400
  ELSE 0

\* lines 61-65: the status the handler answers before any fetch (0: none,
\* it goes on to the fetch)
IssueRejection(key) ==
  IF key = <<>> THEN 400
  ELSE IF ~KeyMatches(key) THEN 400
  ELSE IF ~JiraConfigured THEN 503
  ELSE 0

\* lines 60-70: the handler up to its answer or to the await of the fetch
JiraIssueReceive ==
  /\ jiraLast.op = "init"
  /\ LET param == jiraParam
         key == KeyOf(param)
         status == IssueRejection(key)
     IN /\ jiraPending' = IF status = 0 THEN [op |-> "issue", key |-> key]
                          ELSE NoRequest
        /\ jiraLast' = [op |-> "issue", present |-> param.present,
                        key |-> param.key, fetched |-> jiraPending' # NoRequest,
                        answered |-> status # 0, status |-> status]
  /\ UNCHANGED <<chatVars, jiraDomain, jiraEmail, jiraApiToken, jiraParam>>

\* what the tracker answers: r.status (0: fetch or r.json() throws)
TrackerStatuses == {0, 200, 404}

\* lines 71-83: the answer after the fetch
IssueStatusOf(upstream) == IF upstream = 0 THEN 500 ELSE upstream

JiraIssueResume(upstream) ==
  /\ jiraPending # NoRequest
  /\ jiraPending.op = "issue"
  /\ jiraPending' = NoRequest
  /\ jiraLast' = [op |-> "issue-resume", present |-> TRUE, key |-> jiraPending.key,
                  fetched |-> FALSE, answered |-> TRUE,
                  status |-> IssueStatusOf(upstream)]
  /\ UNCHANGED <<chatVars, jiraDomain, jiraEmail, jiraApiToken, jiraParam>>

\* ------------------------------------------------------------- GET /api/jira/issues
\* line 29: req.get("X-User-Email"), the request parameter read as the
\* header: absent, or a string of at most MaxKeyLen characters

\* line 30: email?.trim() is truthy
EmailGiven(param) == param.present /\ Trim(param.key) # <<>>

\* lines 30-35 with the configuration tested before the header
IssuesRejectionConfigFirst(param) ==
  IF ~JiraConfigured THEN 503
  ELSE IF ~EmailGiven(param) THEN 400
  ELSE 0

\* lines 30-35: the status the handler answers before any fetch (0: none,
\* it goes on to the fetch)
IssuesRejection(param) ==
  IF ~EmailGiven(param) THEN 400
  ELSE IF ~JiraConfigured THEN 503
  ELSE 0

\* lines 29-42: the handler up to its answer or to the await of the fetch
JiraIssuesReceive ==
  /\ jiraLast.op = "init"
  /\ LET param == jiraParam
         status == IssuesRejection(param)
     IN /\ jiraPending' = IF status = 0 THEN [op |-> "issues", key |-> Trim(param.key)]
                          ELSE NoRequest
        /\ jiraLast' = [op |-> "issues", present |-> param.present,
                        key |-> param.key, fetched |-> jiraPending' # NoRequest,
                        answered |-> status # 0, status |-> status]
  /\ UNCHANGED <<chatVars, jiraDomain, jiraEmail, jiraApiToken, jiraParam>>

\* lines 43-55: the answer after the fetch (r.status, or 500 from the catch)
JiraIssuesResume(upstream) ==
  /\ jiraPending # NoRequest
  /\ jiraPending.op = "issues"
  /\ jiraPending' = NoRequest
  /\ jiraLast' = [op |-> "issues-resume", present |-> TRUE, key |-> jiraPending.key,
                  fetched |-> FALSE, answered |-> TRUE,
                  status |-> IssueStatusOf(upstream)]
  /\ UNCHANGED <<chatVars, jiraDomain, jiraEmail, jiraApiToken, jiraParam>>

Next ==
  \/ ChatReceive
  \/ \E r \in BagToSet(inflight) : ChatResume(r)
  \/ \E body \in EndBodies : ChatEnd(body)
  \/ Tick

Spec == Init /\ [][Next]_vars

\* the requests that can be suspended at the await of lines 122, 132: a
\* reuse named a live session, a creation named none or one not in the
\* store after the sweep
ChatRecords ==
  {r \in [sessionId : {Undefined, Str("bogus")} \cup
                        {Str(UuidNames[i]) : i \in 1..MaxChats},
          branch : {"reuse", "create"}, chat : 1..MaxChats,
          found : {"absent", "expired", "live"}] :
     /\ (r.branch = "reuse") <=> (r.found = "live")
     /\ (r.found # "absent") => r.sessionId \notin {Undefined, Str("bogus")}}

\* the promise of sendMessage of a suspended request settles (the engine
\* call returns or fails) and the event loop runs the rest of its handler
ChatSettle(r) == BagIn(r, inflight) /\ ChatResume(r)

\* the chat endpoints with every engine call returning or failing in the end
SpecLive == Spec /\ \A r \in ChatRecords : WF_vars(ChatSettle(r))

\* one tracker request, of any key and under any configuration (the
\* tracker handlers keep no state from one request to the next), the chat
\* store idle
InitTracker ==
  /\ geminiKey = FALSE
  /\ InitChat
  /\ jiraDomain \in BOOLEAN /\ jiraEmail \in BOOLEAN /\ jiraApiToken \in BOOLEAN
  /\ jiraParam \in KeyParams
  /\ InitJira

NextJira ==
  \/ JiraIssueReceive
  \/ \E upstream \in TrackerStatuses : JiraIssueResume(upstream)
  \/ JiraIssuesReceive
  \/ \E upstream \in TrackerStatuses : JiraIssuesResume(upstream)

SpecJira == InitTracker /\ [][NextJira]_vars

\* ------------------------------------------------------------- claims
\* no entry of the store is older than the time-to-live
NoneExpired ==
  \A id \in DOMAIN chatSessions : now - chatSessions[id].lastUsed <= SESSION_TTL_MS

\* the last segment changed nothing: no engine call, no handle, no entry
\* inserted, removed, touched or given another handle
NoEffects ==
  /\ last.calls = 0 /\ last.newChats = 0
  /\ last.inserted = {} /\ last.removed = {}
  /\ last.touched = {} /\ last.rehandled = {}

\* C1: right after a sweep no session older than one hour is in the store;
\* a valid chat request that carries the id of an expired session takes the
\* creation path (a new handle, the old entry gone), and when its exchange
\* succeeds a new entry is inserted under an id that differs from the one
\* supplied and owns that new handle.
C1_Expiry ==
  /\ last.swept => NoneExpired
  /\ (last.op = "chat" /\ last.found = "expired") =>
       /\ last.branch = "create"
       /\ last.removed # {}
       /\ ~last.answered =>
            /\ last.sessionId.v \notin DOMAIN chatSessions
            /\ last.newChats = 1 /\ last.chat = chats
            /\ \A id \in DOMAIN chatSessions : chatSessions[id].chat # last.chat
  /\ (last.op = "resume" /\ last.found = "expired" /\ last.status = 200) =>
       /\ last.branch = "create"
       /\ last.outSessionId # last.sessionId
       /\ last.inserted = {last.outSessionId.v}
       /\ chatSessions[last.outSessionId.v].chat = last.chat

\* a request that carried an expired session's id has been answered with
\* the id of the session made in its place
C1_Witness ==
  /\ last.op = "resume" /\ last.found = "expired" /\ last.status = 200
  /\ last.sessionId.v \in IssuedIds

\* C2: a valid chat request whose sessionId names a live, unexpired session
\* sends on that session's handle, creates no handle and inserts no entry,
\* whatever its systemInstruction, and when the exchange succeeds it is
\* answered with the sessionId it supplied.
C2_Reuse ==
  /\ (last.op = "chat" /\ last.found = "live") =>
       /\ last.branch = "reuse" /\ ~last.answered
       /\ last.calls = 1
       /\ last.newChats = 0 /\ last.inserted = {} /\ last.rehandled = {}
       /\ MapHas(chatSessions, last.sessionId)
       /\ last.chat = chatSessions[last.sessionId.v].chat
  /\ (last.op = "resume" /\ last.found = "live") =>
       /\ last.branch = "reuse"
       /\ last.newChats = 0 /\ last.inserted = {} /\ last.rehandled = {}
       /\ last.status = 200 => last.outSessionId = last.sessionId

\* a request on a live session has been answered with a reply
C2_Witness ==
  /\ last.op = "resume" /\ last.found = "live" /\ last.status = 200
  /\ last.outSessionId.v \in IssuedIds

\* C3: the ids the server has issued are pairwise distinct, and a creation
\* that succeeds answers with an id that none of the earlier creations was
\* answered with, whether their sessions are still stored or not.
C3_FreshIds ==
  /\ \A i, j \in 1..Len(issued) : i # j => issued[i] # issued[j]
  /\ (last.op = "resume" /\ last.branch = "create" /\ last.status = 200) =>
       /\ Len(issued) > 0
       /\ last.outSessionId = Str(issued[Len(issued)])
       /\ \A i \in 1..(Len(issued) - 1) : issued[i] # last.outSessionId.v

\* a second creation has been answered after the session of the first
\* left the store, on a request that named the first one's id
C3_Witness ==
  /\ last.op = "resume" /\ last.branch = "create" /\ last.status = 200
  /\ Len(issued) = 2
  /\ issued[1] \notin DOMAIN chatSessions
  /\ last.sessionId = Str(issued[1])

\* C4: POST /api/chat/end answers 200 {ok: true} for every body, and when
\* sessionId is a string the store has no entry under it afterwards.
C4_EndAlwaysOk ==
  last.op = "end" =>
    /\ last.answered /\ last.status = 200 /\ last.ok
    /\ last.sessionId.t = "string" => last.sessionId.v \notin DOMAIN chatSessions
    /\ last.inserted = {}

\* an end request has removed the live session it named
C4_Witness ==
  /\ last.op = "end" /\ last.found = "live"
  /\ last.removed = {last.sessionId.v}

\* C5: right after POST /api/chat/end with some sessionId, a second call
\* with the same body is answered 200 {ok: true} too and leaves the store
\* as the first call left it.
C5_EndIdempotent ==
  last.op = "end" =>
    LET body == [parsed |-> last.parsed, sessionId |-> last.sessionId]
    IN /\ last.status = 200 /\ last.ok
       /\ EndAnswer(body) = [status |-> 200, ok |-> TRUE]
       /\ EndStore(chatSessions, body) = chatSessions

\* an end request has removed a live session and left another one stored
C5_Witness ==
  /\ last.op = "end" /\ last.removed # {}
  /\ DOMAIN chatSessions # {}

\* C6: the entries of the store hold handles the engine made, no two
\* entries hold the same handle, and no segment replaces the handle of an
\* entry that stays in the store.
C6_HandleOwnership ==
  /\ \A id \in DOMAIN chatSessions : chatSessions[id].chat \in 1..chats
  /\ \A a, b \in DOMAIN chatSessions :
       a # b => chatSessions[a].chat # chatSessions[b].chat
  /\ last.rehandled = {}

\* two sessions are stored and one of them has just been reused
C6_Witness ==
  /\ Cardinality(DOMAIN chatSessions) = 2
  /\ last.op = "chat" /\ last.branch = "reuse"

\* C7 as claimed: after every segment of POST /api/chat, whatever its
\* outcome, the sweep has run: no expired session is in the store.
C7_SweepOnEveryRequest ==
  last.op = "chat" => NoneExpired

\* C7 as amended: every chat request that passes the key and the message
\* validation sweeps before its lookup (no expired session is stored
\* afterwards, one that named an expired session creates, one that reuses
\* named a live session); a request answered by the validation (500, 400)
\* is answered without a sweep: it removes nothing.
C7_SweepBeforeLookup ==
  last.op = "chat" =>
    /\ last.swept =>
         /\ NoneExpired
         /\ last.found = "expired" => last.branch = "create"
         /\ last.branch = "reuse" => last.found = "live"
    /\ ~last.answered => last.swept
    /\ ~last.swept =>
         /\ last.answered /\ last.status \in {400, 500}
         /\ last.removed = {}

\* a valid request has swept an expired session out of the store
C7_Witness ==
  /\ last.op = "chat" /\ last.swept
  /\ last.removed # {}

\* C8: a chat request whose engine call fails is answered with the error's
\* status if it has one and with 500 otherwise, with an error body and no
\* reply or sessionId, and inserts no entry: the handle of a failed
\* creation is in no entry.
C8_EngineFailure ==
  (last.threw >= 0 /\ last.branch # "none") =>
    /\ last.answered
    /\ last.status = (IF last.threw = 0 THEN 500 ELSE last.threw)
    /\ last.status # 200
    /\ last.error # "" /\ last.reply = "" /\ last.outSessionId = Undefined
    /\ last.inserted = {}
    /\ (last.op = "resume" /\ last.branch = "create") =>
         \A id \in DOMAIN chatSessions : chatSessions[id].chat # last.chat

\* the first exchange of a creation has failed with a status of its own
C8_Witness ==
  /\ last.op = "resume" /\ last.branch = "create"
  /\ last.threw = 429 /\ last.status = 429

\* C9: a chat request is answered 500 when the key is not configured, and
\* 400 when the key is configured and message is missing, empty or not a
\* string; either way it calls no engine, creates no session and touches
\* no lastUsed.
C9_Validation ==
  (last.op = "chat" /\ (last.message.t # "string" \/ last.message.v = "" \/ ~geminiKey)) =>
    /\ last.answered
    /\ last.status = (IF geminiKey THEN 400 ELSE 500)
    /\ NoEffects

\* C10: GET /api/jira/issue with a key that is missing or, trimmed and
\* upper-cased, does not match the pattern is answered 400 with no fetch
\* started, whether the tracker is configured or not.
C10_InvalidKey ==
  (jiraLast.op = "issue" /\ ~KeyMatches(KeyOf(jiraParam))) =>
    /\ jiraLast.answered /\ jiraLast.status = 400
    /\ ~jiraLast.fetched /\ jiraPending = NoRequest

\* a key that fails the pattern has been refused with the tracker configured
C10_Witness ==
  /\ jiraLast.op = "issue" /\ JiraConfigured
  /\ jiraParam.present /\ Trim(jiraParam.key) # <<>>
  /\ ~KeyMatches(KeyOf(jiraParam))
  /\ jiraLast.status = 400

\* C11: GET /api/jira/issues whose X-User-Email header is absent or blank
\* is answered 400, configured or not; with the header and the tracker not
\* configured (domain, email or token missing) it is answered 503; in
\* neither case is a fetch started.
C11_IssuesRejection ==
  jiraLast.op = "issues" =>
    /\ ~(jiraParam.present /\ Trim(jiraParam.key) # <<>>) =>
         /\ jiraLast.answered /\ jiraLast.status = 400
         /\ ~jiraLast.fetched /\ jiraPending = NoRequest
    /\ (jiraParam.present /\ Trim(jiraParam.key) # <<>>
          /\ ~(jiraDomain /\ jiraEmail /\ jiraApiToken)) =>
         /\ jiraLast.answered /\ jiraLast.status = 503
         /\ ~jiraLast.fetched /\ jiraPending = NoRequest

\* a request with a blank header has been refused with 400 although the
\* tracker is not configured
C11_Witness ==
  /\ jiraLast.op = "issues" /\ ~JiraConfigured
  /\ jiraParam.present /\ jiraParam.key # <<>> /\ Trim(jiraParam.key) = <<>>
  /\ jiraLast.status = 400

\* C12 as claimed: the insertion of a creation (and the touch of a reuse,
\* which is in the segment of its lookup) is never directly preceded by a
\* store step of another request: an end request, another chat request's
\* sweep and lookup, or another creation's insertion.
C12_AtomicResolve ==
  [][(last'.op = "resume" /\ last'.branch = "create" /\ last'.status = 200) =>
       ~(\/ last.op = "end"
         \/ last.op = "chat" /\ last.swept /\ last.chat # last'.chat
         \/ last.op = "resume" /\ last.inserted # {})]_vars

\* C12 as amended: a reuse looks up and touches in one segment (right
\* after it the entry named holds the handle sent on and the time of the
\* lookup); a creation writes nothing before its await (the handle of a
\* suspended creation is in no entry), and after it generates the id,
\* inserts and answers in one segment.
C12_AtomicSegments ==
  /\ (last.op = "chat" /\ last.branch = "reuse") =>
       /\ MapHas(chatSessions, last.sessionId)
       /\ chatSessions[last.sessionId.v] = [chat |-> last.chat, lastUsed |-> now]
  /\ \A r \in BagToSet(inflight) :
       r.branch = "create" =>
         \A id \in DOMAIN chatSessions : chatSessions[id].chat # r.chat
  /\ (last.op = "resume" /\ last.branch = "create" /\ last.status = 200) =>
       /\ last.inserted = {last.outSessionId.v}
       /\ chatSessions[last.outSessionId.v] = [chat |-> last.chat, lastUsed |-> now]

\* an end request has deleted a session while a creation was suspended
\* between its lookup and its insertion
C12_Witness ==
  /\ last.op = "end" /\ last.removed # {}
  /\ \E r \in BagToSet(inflight) : r.branch = "create"

\* C13 as claimed: the lastUsed of a stored session changes only in a
\* segment that completes an exchange successfully, so that an exchange
\* that fails later has changed nothing.
C13_LastSuccessfulExchange ==
  last.touched # {} => (last.op = "resume" /\ last.status = 200)

\* C13 as amended: the lastUsed of a stored session changes only in the
\* lookup segment of a request that reuses it, to the time of the lookup
\* and before the exchange is made; the segment after the await changes no
\* lastUsed, whether the exchange succeeded or failed; a creation sets
\* lastUsed when it inserts, after its first exchange succeeded.
C13_TouchedAtLookup ==
  /\ last.touched # {} =>
       /\ last.op = "chat" /\ last.branch = "reuse"
       /\ last.touched = {last.sessionId.v}
  /\ (last.op = "chat" /\ last.branch = "reuse") =>
       /\ ~last.answered /\ last.calls = 1
       /\ chatSessions[last.sessionId.v].lastUsed = now
  /\ last.op = "resume" => last.touched = {}
  /\ (last.op = "resume" /\ last.branch = "create" /\ last.status = 200) =>
       chatSessions[last.outSessionId.v].lastUsed = now

\* a reuse has moved the lastUsed of its session before its exchange
C13_Witness ==
  /\ last.op = "chat" /\ last.branch = "reuse" /\ ~last.answered
  /\ last.touched = {last.sessionId.v}

\* C14: an entry leaves the store only in an end request that names it or
\* in the sweep of a chat request, and then only at an age above one hour:
\* a sweep removes no entry aged one hour or less; no chat segment gives
\* an entry another handle, none but the lookup of a reuse changes a
\* lastUsed, and then only that of the session it names; the segment after
\* an await, successful or failed, removes nothing.
C14_RemovalOnlyByEndOrExpiry ==
  /\ last.removed # {} =>
       \/ /\ last.op = "end" /\ last.sessionId.t = "string"
          /\ last.removed = {last.sessionId.v}
       \/ /\ last.op = "chat" /\ last.swept
          /\ last.removedLive = {}
  /\ last.op \in {"chat", "resume"} =>
       /\ last.removedLive = {}
       /\ last.rehandled = {}
       /\ last.touched \subseteq
            (IF last.op = "chat" /\ last.branch = "reuse"
             THEN {last.sessionId.v} ELSE {})
  /\ last.op = "resume" => last.removed = {}
  /\ last.op = "end" => (last.touched = {} /\ last.rehandled = {})

\* a sweep has removed an expired session and kept one aged exactly one hour
C14_Witness ==
  /\ last.op = "chat" /\ last.swept /\ last.removed # {}
  /\ \E id \in DOMAIN chatSessions :
       now - chatSessions[id].lastUsed = SESSION_TTL_MS

\* C15 as claimed: whenever a chat request is answered with a reply and a
\* sessionId, the store holds an entry under that sessionId.
C15_ReturnedIdLive ==
  (last.op = "resume" /\ last.status = 200) =>
    MapHas(chatSessions, last.outSessionId)

\* C15 as amended: a creation is answered with the id of the entry it has
\* just inserted, which is in the store and holds its handle; a reuse is
\* answered with the id it supplied, which named a live session at its
\* lookup (it is in the store right after the lookup segment) and which
\* the segment after the await neither inserts nor removes.
C15_ReturnedIdWasLive ==
  /\ (last.op = "resume" /\ last.branch = "create" /\ last.status = 200) =>
       /\ MapHas(chatSessions, last.outSessionId)
       /\ chatSessions[last.outSessionId.v].chat = last.chat
  /\ (last.op = "chat" /\ last.branch = "reuse") =>
       MapHas(chatSessions, last.sessionId)
  /\ (last.op = "resume" /\ last.branch = "reuse" /\ last.status = 200) =>
       /\ last.found = "live"
       /\ last.outSessionId = last.sessionId
       /\ last.inserted = {} /\ last.removed = {}

\* a reuse has been answered with the id of a session that an end request
\* or a sweep removed while the exchange was awaited
C15_Witness ==
  /\ last.op = "resume" /\ last.branch = "reuse" /\ last.status = 200
  /\ ~MapHas(chatSessions, last.outSessionId)

\* C16: the creations suspended at the same time hold pairwise distinct
\* handles that no entry holds yet; a creation that is answered with a
\* reply inserts exactly one new entry, under the id it answers with and
\* with its own handle, replaces, removes and touches no other entry, and
\* leaves its handle in exactly one entry.
C16_ConcurrentCreations ==
  /\ \A r \in BagToSet(inflight) :
       r.branch = "create" =>
         /\ CopiesIn(r, inflight) = 1
         /\ \A q \in BagToSet(inflight) : (q # r) => q.chat # r.chat
  /\ (last.op = "resume" /\ last.branch = "create" /\ last.status = 200) =>
       /\ last.inserted = {last.outSessionId.v}
       /\ last.removed = {} /\ last.rehandled = {} /\ last.touched = {}
       /\ Cardinality({id \in DOMAIN chatSessions :
                         chatSessions[id].chat = last.chat}) = 1
       /\ chatSessions[last.outSessionId.v].chat = last.chat

\* of two creations that named the same unknown session and were suspended
\* together, the second has been answered after the first one: both
\* entries are stored
C16_Witness ==
  /\ last.op = "resume" /\ last.branch = "create" /\ last.status = 200
  /\ last.sessionId = Str("bogus")
  /\ inflight = EmptyBag /\ chats = 2 /\ issued = <<"uuid-1", "uuid-2">>
  /\ DOMAIN chatSessions = {"uuid-1", "uuid-2"}
  /\ chatSessions["uuid-1"].chat = 2 /\ chatSessions["uuid-2"].chat = 1

\* C17: every segment of POST /api/chat up to the await either answers
\* (400 or 500) and suspends nothing, or suspends at the engine call and
\* answers nothing; the segment after the await answers (200, or the
\* error's status, or 500) and takes its request out of the suspended ones,
\* so that it is not answered again; and every suspended request is
\* answered in the end, provided its engine call returns or fails.
C17_ExactlyOneResponse ==
  /\ [](/\ last.op = "chat" =>
             /\ last.answered <=> last.calls = 0
             /\ ~last.answered <=> last.calls = 1
             /\ last.status \in (IF last.answered THEN {400, 500} ELSE {0})
        /\ last.op = "resume" =>
             /\ last.answered /\ last.calls = -1
             /\ last.status \in {200, 500, 429})
  /\ \A r \in ChatRecords :
       BagIn(r, inflight) ~>
         (/\ last.op = "resume" /\ last.answered
          /\ last.sessionId = r.sessionId /\ last.branch = r.branch
          /\ last.chat = r.chat /\ last.found = r.found)

\* a request has been answered after its await while another one is still
\* suspended
C17_Witness ==
  /\ last.op = "resume" /\ last.answered /\ last.calls = -1
  /\ inflight # EmptyBag

\* C18: every key of the store is a string the server's id generator has
\* returned; a string a client made up is never a key; and a creation that
\* is answered inserts under an id that differs from the sessionId its
\* request supplied, also when that named a session that had expired.
C18_ServerGeneratedKeys ==
  /\ \A id \in DOMAIN chatSessions :
       \E i \in 1..Len(issued) : issued[i] = id /\ id = UuidNames[i]
  /\ "bogus" \notin DOMAIN chatSessions
  /\ (last.op = "resume" /\ last.branch = "create" /\ last.status = 200) =>
       /\ last.outSessionId # last.sessionId
       /\ last.sessionId.v \notin last.inserted

\* a creation whose request supplied an id that is not in the store has
\* been answered, and the store has no entry under the supplied id
C18_Witness ==
  /\ last.op = "resume" /\ last.branch = "create" /\ last.status = 200
  /\ last.sessionId = Str("bogus")
  /\ DOMAIN chatSessions = {last.outSessionId.v}

====
